---- MODULE Spec2Model ----
(***************************************************************************)
(* Model of signal_email_bridge.py: SignalEmailBridge.run polls the Signal *)
(* REST API, and for each returned message process_message extracts its    *)
(* fields, formats a body and calls send_email_with_attachments, which     *)
(* downloads the attachments, embeds the images and pipes the email to     *)
(* msmtp.                                                                  *)
(*                                                                         *)
(* JSON values are tagged records: a dictionary key is "absent", or holds  *)
(* null, or holds a value.  Content types are sequences of characters so   *)
(* that str.startswith is computed, not assumed.                           *)
(*                                                                         *)
(* A Python exception is the value "raise" returned by the operator that   *)
(* models the function; every caller handles it as its try/except does.    *)
(* KeyboardInterrupt is not an Exception: no `except Exception` clause     *)
(* catches it, only run()'s `except KeyboardInterrupt`.                    *)
(***************************************************************************)
EXTENDS Naturals, Sequences, FiniteSets

\* Bounds of the model.
MaxBatch == 2      \* messages returned by one poll
MaxAtt == 2        \* attachment descriptors of one message

VARIABLES
    pc,            \* where run() is: the operation about to complete
    messages,      \* run(): the value receive_messages() returned
    idx,           \* run(): how many messages of the batch the for loop has taken
    started,       \* per message of the batch: how often process_message was started
    message,       \* process_message(): the raw message being processed
    body,          \* process_message(): the formatted body
    att,           \* send_email_with_attachments(): attachments iterated so far
    downloads,     \* per attachment iterated: what download_attachment returned
    parts,         \* the binary parts attached to msg, after the text part
    sendCount,     \* invocations of the mail transport for this message
    sendOutcome,   \* what the mail transport did at the last invocation
    sendResult,    \* what send_email_with_attachments returned
    log,           \* logger records of the step run() is in
    failed,        \* history: an earlier message of this batch logged a failure
    sent,          \* history: the messages of this batch handed to the transport, in order
    slept,         \* history: the intervals run() has slept since the last poll returned
    interrupted,   \* history: a KeyboardInterrupt was delivered
    interruptedAt  \* history: where run() was when it was delivered

vars == <<pc, messages, idx, started, message, body, att, downloads, parts,
          sendCount, sendOutcome, sendResult, log, failed, sent, slept,
          interrupted, interruptedAt>>

----------------------------------------------------------------------------
\* Strings whose characters the code inspects.

IMAGE_PREFIX == <<"i", "m", "a", "g", "e", "/">>
IMAGE_PNG == <<"i", "m", "a", "g", "e", "/", "p", "n", "g">>
APPLICATION_PDF == <<"a", "p", "p", "l", "i", "c", "a", "t", "i", "o", "n", "/", "p", "d", "f">>
EMPTY_STR == <<>>
UNKNOWN == <<"u", "n", "k", "n", "o", "w", "n">>
NONE_STR == <<"N", "o", "n", "e">>
ATTACHMENT == <<"a", "t", "t", "a", "c", "h", "m", "e", "n", "t">>
A_PNG == <<"a", ".", "p", "n", "g">>
B_PDF == <<"b", ".", "p", "d", "f">>

\* str.startswith(prefix)
StartsWith(s, prefix) ==
    /\ Len(s) >= Len(prefix)
    /\ SubSeq(s, 1, Len(prefix)) = prefix

----------------------------------------------------------------------------
\* JSON input: attachment descriptors and raw messages.

AbsentKey == [tag |-> "absent", val |-> <<>>]
NullKey == [tag |-> "null", val |-> <<>>]
StrKey(s) == [tag |-> "str", val |-> s]
\* a JSON number, held as the digits str() prints
IntKey(digits) == [tag |-> "int", val |-> digits]

Descriptor(shape, contentType, size, filename) ==
    [shape |-> shape, contentType |-> contentType, size |-> size, filename |-> filename]

D_png == Descriptor("record", StrKey(IMAGE_PNG), IntKey(<<"1", "0">>), StrKey(A_PNG))
D_pdf == Descriptor("record", StrKey(APPLICATION_PDF), IntKey(<<"2", "0">>), StrKey(B_PDF))
D_bare == Descriptor("record", AbsentKey, AbsentKey, AbsentKey)
D_emptyType == Descriptor("record", StrKey(EMPTY_STR), IntKey(<<"5">>), AbsentKey)
D_nullType == Descriptor("record", NullKey, IntKey(<<"7">>), AbsentKey)
D_string == Descriptor("string", AbsentKey, AbsentKey, AbsentKey)

Descriptors == {D_png, D_pdf, D_bare, D_emptyType, D_nullType, D_string}

AttLists == UNION {[1..k -> Descriptors] : k \in 0..MaxAtt}

ListVal(items) == [tag |-> "list", items |-> items]
AbsentList == [tag |-> "absent", items |-> <<>>]
NullList == [tag |-> "null", items |-> <<>>]
NumberInList == [tag |-> "number", items |-> <<>>]

AbsentText == [tag |-> "absent", val |-> ""]
NullText == [tag |-> "null", val |-> ""]
Text(s) == [tag |-> "str", val |-> s]

\* A text with a lone surrogate ("\ud800" in the JSON): a str that UTF-8 cannot encode.
SURROGATE == "\\ud800"

RawMessage(shape, envelope, timestamp, dataMessage, text, attachments) ==
    [shape |-> shape, envelope |-> envelope, timestamp |-> timestamp,
     dataMessage |-> dataMessage, text |-> text, attachments |-> attachments]

\* Well-shaped messages: every text with every attachment list.
CoreMessages ==
    {RawMessage("record", "record", "int", "record", Text(t), ListVal(a)) :
        t \in {"", "Hello"}, a \in AttLists}

\* Variations of the optional keys around small attachment lists.
VariedMessages ==
    {RawMessage("record", "record", ts, "record", t, a) :
        ts \in {"absent", "int", "null", "huge"},
        t \in {AbsentText, NullText, Text(""), Text("Hello"), Text(SURROGATE)},
        a \in {AbsentList, NullList, NumberInList, ListVal(<<>>), ListVal(<<D_png>>)}}

\* Messages whose containers are not records.
ShapelessMessages ==
    {RawMessage(s, e, "int", d, Text("Hello"), ListVal(<<>>)) :
        s \in {"record", "string"}, e \in {"absent", "null", "record"},
        d \in {"absent", "null", "record"}}

Messages == CoreMessages \cup VariedMessages \cup ShapelessMessages

NoMessage == RawMessage("none", "absent", "absent", "absent", AbsentText, AbsentList)

----------------------------------------------------------------------------
\* Python helpers.

\* bool(x) of a str or None
TruthyText(t) == t.tag = "str" /\ t.val # ""

\* bool(x) of a list, None or a non-zero number
TruthyList(a) == (a.tag = "list" /\ a.items # <<>>) \/ a.tag = "number"

\* dict.get(key, default): the default only when the key is absent
Get(field, default) == IF field.tag = "absent" THEN default ELSE field

\* str(x) as an f-string prints a str, None or a number
Str(field) == IF field.tag = "null" THEN NONE_STR ELSE field.val

----------------------------------------------------------------------------
\* process_message, lines 112-144: extraction, the emptiness filter, formatting.

ExtractionFailed == [exc |-> TRUE, timestamp |-> "int", content |-> Text(""),
                     attachments |-> ListVal(<<>>)]

\* Lines 112-120.  x.get raises AttributeError when x is not a dict; a missing
\* 'envelope' or 'dataMessage' is the empty dict, whose keys are all absent.
Extract(m) ==
    IF m.shape # "record" \/ m.envelope = "null" THEN ExtractionFailed
    ELSE LET timestamp == IF m.envelope = "absent" \/ m.timestamp = "absent"
                          THEN "int" ELSE m.timestamp
             data_message == IF m.envelope = "absent" THEN "absent" ELSE m.dataMessage
         IN IF data_message = "null" THEN ExtractionFailed
            ELSE [exc |-> FALSE,
                  timestamp |-> timestamp,
                  content |-> IF data_message = "absent" THEN Text("")
                              ELSE Get(m.text, Text("")),
                  attachments |-> IF data_message = "absent" THEN ListVal(<<>>)
                                  ELSE Get(m.attachments, ListVal(<<>>))]

\* The filter written with `or`: a message lacking either is skipped.
IsEmpty_either(content, attachments) == ~TruthyText(content) \/ ~TruthyList(attachments)

\* The filter left out: nothing is skipped.
IsEmpty_never(content, attachments) == FALSE

\* Line 123: skip if there's no content AND no attachments.
IsEmpty(content, attachments) == ~TruthyText(content) /\ ~TruthyList(attachments)

\* Line 127: datetime.fromtimestamp(timestamp/1000) raises TypeError for a
\* non-number and OverflowError for a number out of range.
DateRaises(timestamp) == timestamp # "int"

NO_MESSAGE == "<no message>"

\* Lines 141-142: one listing entry.
ListingEntry(i, a) ==
    [idx |-> i,
     type |-> Str(Get(a.contentType, StrKey(UNKNOWN))),
     size |-> Str(Get(a.size, StrKey(UNKNOWN)))]

\* Lines 139-144 raise when attachments is truthy and not iterable, or when an
\* element is not a dict (att.get).
ListingRaises(attachments) ==
    /\ TruthyList(attachments)
    /\ \/ attachments.tag # "list"
       \/ \E i \in 1..Len(attachments.items) : attachments.items[i].shape # "record"

\* Lines 130-144: the body.
FormatBody(content, attachments) ==
    [message |-> IF TruthyText(content) THEN content.val ELSE NO_MESSAGE,
     listing |-> IF TruthyList(attachments)
                 THEN [i \in 1..Len(attachments.items) |->
                          ListingEntry(i, attachments.items[i])]
                 ELSE <<>>,
     noAttachments |-> ~TruthyList(attachments)]

NoBody == [message |-> "", listing |-> <<>>, noAttachments |-> FALSE]

\* Line 59: MIMEText(body) raises UnicodeEncodeError when the body holds a
\* lone surrogate.
MIMETextRaises(b) == b.message = SURROGATE

\* Lines 112-147 and 53-62, up to the first external operation:
\* "raise" (caught at line 154), "discard" (line 124), or the call of
\* send_email_with_attachments proceeding to "download" or to "send".
ProcessMessageStart(m) ==
    LET x == Extract(m) IN
    IF x.exc THEN "raise"
    ELSE IF IsEmpty(x.content, x.attachments) THEN "discard"
    ELSE IF DateRaises(x.timestamp) THEN "raise"
    ELSE IF ListingRaises(x.attachments) THEN "raise"
    ELSE IF MIMETextRaises(FormatBody(x.content, x.attachments)) THEN "raise"
    ELSE IF TruthyList(x.attachments) THEN "download"
    ELSE "send"

\* The attachments send_email_with_attachments iterates for the current message.
Attachments(m) == Extract(m).attachments.items

----------------------------------------------------------------------------
\* download_attachment and the attachment loop of send_email_with_attachments.

\* Lines 44, 97: requests.get(url) is called without a timeout argument, and
\* requests then waits for the server without limit.
request_timeout == "None"

\* What GET /v1/attachments/{id} can do: fail (network error or non-2xx), or
\* return a body: empty, bytes MIMEImage recognises as an image, or other bytes.
AttachmentResponses == {"error", "empty", "image", "junk"}

\* Lines 41-49: any exception is caught and None returned.
download_attachment(response) == IF response = "error" THEN "None" ELSE response

\* Line 71: bool(content) of bytes or None.
TruthyContent(content) == content \in {"image", "junk"}

\* Lines 73-76 for one attachment with truthy content: "embed", "skip", or
\* "raise" (None.startswith: AttributeError; MIMEImage cannot guess the
\* subtype: TypeError), which line 78 catches.
AttachImage(a, content) ==
    LET content_type == Get(a.contentType, StrKey(EMPTY_STR)) IN
    IF content_type.tag = "null" THEN "raise"
    ELSE IF ~StartsWith(content_type.val, IMAGE_PREFIX) THEN "skip"
    ELSE IF content # "image" THEN "raise"
    ELSE "embed"

\* Line 75: the part's filename.
PartFilename(a) == Get(a.filename, StrKey(ATTACHMENT)).val

\* The send moved into the attachment loop: it follows the first attachment.
AfterAttachment_sendfirst(i, n, content) == "send"

\* The attachment loop leaving at the first failed download.
AfterAttachment_break(i, n, content) ==
    IF i = n \/ content = "None" THEN "send" ELSE "download"

\* Lines 63, 80: the attachment loop goes on to the next descriptor, whatever
\* happened to attachment i of n, and the send follows the last one.
AfterAttachment(i, n, content) == IF i = n THEN "send" ELSE "download"

LogRecord(text) == [text |-> text, message |-> NoMessage]
LogMessage(text, m) == [text |-> text, message |-> m]

\* The logger.error records of lines 48, 79, 90, 155.
FailureTexts == {"Failed to download attachment", "Failed to process attachment",
                 "Failed to send email", "Failed to process message"}

LoggedFailure(l) == \E i \in 1..Len(l) : l[i].text \in FailureTexts

----------------------------------------------------------------------------
\* The mail transport and the return values of the functions.

\* What Popen(['msmtp', ...]) and communicate() can do.
TransportOutcomes == {"ok", "nonzero", "raises"}

\* The try of lines 81-88 covering only the return-code check: an exception
\* of Popen or communicate leaves the function.
send_email_with_attachments_narrow(transport) ==
    IF transport = "ok" THEN "True"
    ELSE IF transport = "nonzero" THEN "False"
    ELSE "raise"

\* Lines 81-92: a non-zero return code raises inside the try; every exception
\* is caught, logged, and False returned.
send_email_with_attachments(transport) == IF transport = "ok" THEN "True" ELSE "False"

\* process_message without its try/except: an exception leaves it.
process_message_uncaught(raised) == IF raised THEN "raise" ELSE "return"

\* Lines 111, 154-156: process_message catches every Exception raised in its body.
process_message(raised) == "return"

\* Lines 163-176: where run() goes when process_message has returned or raised.
AfterProcessMessage(result) == IF result = "raise" THEN "handler_sleep" ELSE "returned"

\* A sender that is invoked again after a failed send.
AfterSend_retry(result) ==
    IF result = "False" THEN "send"
    ELSE AfterProcessMessage(process_message(result = "raise"))

\* Lines 147-156: whatever the sender returned, process_message ends; an
\* exception leaving the sender is caught at line 154.
AfterSend(result) == AfterProcessMessage(process_message(result = "raise"))

\* Line 158: run(poll_interval=5), the seconds of lines 169 and 176.
poll_interval == 5

\* What GET /v1/receive/{number} can do: fail, or return JSON: a list of n
\* messages, or a value that is not a list (a number, say).
PollResponses ==
    {[kind |-> k, len |-> 0] : k \in {"error", "number"}}
        \cup {[kind |-> "list", len |-> n] : n \in 0..MaxBatch}

NoneValue == [kind |-> "None", len |-> 0]

\* `messages` before the first poll has returned.
Unset == [kind |-> "unset", len |-> 0]

\* Lines 94-107: any exception is caught and None returned.
receive_messages(response) == IF response.kind = "error" THEN NoneValue ELSE response

\* Line 165: bool(messages).
TruthyMessages(r) == (r.kind = "list" /\ r.len > 0) \/ r.kind = "number"

\* run() without the `if messages:` guard: iterating None raises TypeError.
AfterReceive_unguarded(r) ==
    IF r.kind = "list" THEN (IF r.len > 0 THEN "loop" ELSE "sleep")
    ELSE "handler_sleep"

\* The loop-level handler without its sleep (line 176): run() polls at once.
AfterReceive_nosleep(r) ==
    IF ~TruthyMessages(r) THEN "sleep"
    ELSE IF r.kind = "list" THEN "loop"
    ELSE "poll"

\* run() without the loop-level `except Exception`: the TypeError leaves run().
AfterReceive_uncaught(r) ==
    IF ~TruthyMessages(r) THEN "sleep"
    ELSE IF r.kind = "list" THEN "loop"
    ELSE "crashed"

\* Lines 165-169, 174-176: after the poll run() enters the for loop, sleeps
\* at once, or (iterating a non-iterable raises TypeError) goes to the handler.
AfterReceive(r) ==
    IF ~TruthyMessages(r) THEN "sleep"
    ELSE IF r.kind = "list" THEN "loop"
    ELSE "handler_sleep"

----------------------------------------------------------------------------
\* The state machine.

Init ==
    /\ pc = "poll"
    /\ messages = Unset
    /\ idx = 0
    /\ started = <<>>
    /\ message = NoMessage
    /\ body = NoBody
    /\ att = 0
    /\ downloads = <<>>
    /\ parts = <<>>
    /\ sendCount = 0
    /\ sendOutcome = "none"
    /\ sendResult = "none"
    /\ log = <<>>
    /\ failed = FALSE
    /\ sent = <<>>
    /\ slept = <<>>
    /\ interrupted = FALSE
    /\ interruptedAt = "nowhere"

\* Nothing of the previous message is kept: every variable below is a local
\* of process_message or send_email_with_attachments.
ResetMessage ==
    /\ message' = NoMessage
    /\ body' = NoBody
    /\ att' = 0
    /\ downloads' = <<>>
    /\ parts' = <<>>
    /\ sendCount' = 0
    /\ sendOutcome' = "none"
    /\ sendResult' = "none"

\* run(), lines 164-166: the poll completes.
Receive ==
    /\ pc = "poll"
    /\ \E response \in PollResponses :
         LET r == receive_messages(response) IN
         /\ messages' = r
         /\ started' = [i \in 1..r.len |-> 0]
         /\ pc' = AfterReceive(r)
         /\ log' = (IF r.kind = "None"
                    THEN <<LogRecord("Failed to receive messages")>> ELSE <<>>)
                   \o (IF AfterReceive(r) = "handler_sleep"
                       THEN <<LogRecord("Error in main loop")>> ELSE <<>>)
    /\ idx' = 0
    /\ failed' = FALSE
    /\ sent' = <<>>
    /\ slept' = <<>>
    /\ ResetMessage
    /\ UNCHANGED <<interrupted, interruptedAt>>

\* run(), lines 166-167, and process_message up to its first external
\* operation: the for loop takes the next message of the batch.  The message's
\* content was fixed by the poll; nothing read it before this step.
NextMessage ==
    /\ pc = "loop"
    /\ idx < messages.len
    /\ idx' = idx + 1
    /\ started' = [started EXCEPT ![idx + 1] = @ + 1]
    /\ \E m \in Messages :
         LET start == ProcessMessageStart(m)
             x == Extract(m)
         IN
         /\ message' = m
         /\ body' = IF start \in {"download", "send"}
                    THEN FormatBody(x.content, x.attachments) ELSE NoBody
         /\ pc' = IF start \in {"download", "send"} THEN start
                  ELSE AfterProcessMessage(process_message(start = "raise"))
         /\ log' = IF start # "raise" THEN <<>>
                   ELSE IF process_message(TRUE) = "return"
                   THEN <<LogRecord("Failed to process message"),
                          LogMessage("Message content", m)>>
                   ELSE <<LogRecord("Error in main loop")>>
    /\ att' = 0
    /\ downloads' = <<>>
    /\ parts' = <<>>
    /\ sendCount' = 0
    /\ sendOutcome' = "none"
    /\ sendResult' = "none"
    /\ UNCHANGED <<messages, failed, sent, slept,
                   interrupted, interruptedAt>>

\* send_email_with_attachments, lines 63-79: one turn of the attachment loop.
Download ==
    /\ pc = "download"
    /\ att < Len(Attachments(message))
    /\ LET a == Attachments(message)[att + 1] IN
       IF a.shape # "record"
       THEN \* attachment_data.get raises, line 78 catches: no download
            /\ downloads' = Append(downloads, "not attempted")
            /\ parts' = parts
            /\ log' = Append(log, LogRecord("Failed to process attachment"))
       ELSE \E response \in AttachmentResponses :
              LET content == download_attachment(response)
                  r == IF TruthyContent(content) THEN AttachImage(a, content) ELSE "skip"
              IN
              /\ downloads' = Append(downloads, content)
              /\ parts' = IF r = "embed"
                          THEN Append(parts, [attachment |-> att + 1,
                                              filename |-> PartFilename(a)])
                          ELSE parts
              /\ log' = log
                        \o (IF content = "None"
                            THEN <<LogRecord("Failed to download attachment")>> ELSE <<>>)
                        \o (IF r = "embed" THEN <<LogRecord("Attached image")>> ELSE <<>>)
                        \o (IF r = "raise"
                            THEN <<LogRecord("Failed to process attachment")>> ELSE <<>>)
    /\ att' = att + 1
    /\ pc' = AfterAttachment(att + 1, Len(Attachments(message)), downloads'[att + 1])
    /\ UNCHANGED <<messages, idx, started, message, body, sendCount, sendOutcome,
                   sendResult, failed, sent, slept,
                   interrupted, interruptedAt>>

\* send_email_with_attachments, lines 81-92, and process_message, lines 147-156.
Send ==
    /\ pc = "send"
    /\ \E transport \in TransportOutcomes :
         LET result == send_email_with_attachments(transport) IN
         /\ sendOutcome' = transport
         /\ sendResult' = result
         /\ pc' = AfterSend(result)
         /\ log' = log
                   \o (IF transport # "ok" /\ result # "raise"
                       THEN <<LogRecord("Failed to send email")>> ELSE <<>>)
                   \o (IF result = "True" THEN <<LogRecord("Forwarded message")>> ELSE <<>>)
                   \o (IF result = "raise" /\ process_message(TRUE) = "return"
                       THEN <<LogRecord("Failed to process message"),
                              LogMessage("Message content", message)>>
                       ELSE <<>>)
                   \o (IF result = "raise" /\ process_message(TRUE) = "raise"
                       THEN <<LogRecord("Error in main loop")>> ELSE <<>>)
    /\ sendCount' = sendCount + 1
    /\ sent' = Append(sent, idx)
    /\ UNCHANGED <<messages, idx, started, message, body, att, downloads, parts,
                   failed, slept,
                   interrupted, interruptedAt>>

\* run(), lines 166-167: process_message has returned and its locals are gone;
\* the for loop goes on.
Return ==
    /\ pc = "returned"
    /\ pc' = "loop"
    /\ ResetMessage
    /\ log' = <<>>
    /\ failed' = (failed \/ LoggedFailure(log))
    /\ UNCHANGED <<messages, idx, started, sent, slept,
                   interrupted, interruptedAt>>

\* run(), lines 166-169: the for loop is exhausted.
EndOfBatch ==
    /\ pc = "loop"
    /\ idx = messages.len
    /\ pc' = "sleep"
    /\ UNCHANGED <<messages, idx, started, message, body, att, downloads, parts,
                   sendCount, sendOutcome, sendResult, log, failed, sent, slept,
                   interrupted, interruptedAt>>

\* run(), line 169: time.sleep(poll_interval) returns; the while loop polls again.
Sleep ==
    /\ pc = "sleep"
    /\ pc' = "poll"
    /\ slept' = Append(slept, poll_interval)
    /\ UNCHANGED <<messages, idx, started, message, body, att, downloads, parts,
                   sendCount, sendOutcome, sendResult, log, failed, sent,
                   interrupted, interruptedAt>>

\* run(), lines 174-176: the sleep of the loop-level handler returns.
HandlerSleep ==
    /\ pc = "handler_sleep"
    /\ pc' = "poll"
    /\ slept' = Append(slept, poll_interval)
    /\ UNCHANGED <<messages, idx, started, message, body, att, downloads, parts,
                   sendCount, sendOutcome, sendResult, log, failed, sent,
                   interrupted, interruptedAt>>

\* A KeyboardInterrupt held back until the sleep between cycles: anywhere
\* else run() goes on where it was.
AfterInterrupt_deferred(at) == IF at = "sleep" THEN "stopped" ELSE at

\* Where a KeyboardInterrupt takes run(): raised inside the try (lines
\* 164-169) it reaches `except KeyboardInterrupt` (lines 171-173); raised in
\* the handler's sleep (line 176) no clause catches it and it leaves run().
AfterInterrupt(at) == IF at = "handler_sleep" THEN "crashed" ELSE "stopped"

\* A KeyboardInterrupt is delivered while run() executes: the stack unwinds
\* to run(), and the locals of the functions it leaves are gone.
Interrupt ==
    /\ pc \in {"poll", "loop", "download", "send", "returned", "sleep", "handler_sleep",
              "poll_blocked", "download_blocked"}
    /\ pc' = AfterInterrupt(pc)
    /\ interrupted' = TRUE
    /\ interruptedAt' = pc
    /\ log' = IF AfterInterrupt(pc) = "stopped"
              THEN <<LogRecord("Shutting down...")>> ELSE <<>>
    /\ ResetMessage
    /\ UNCHANGED <<messages, idx, started, failed, sent, slept>>

Next ==
    \/ Receive
    \/ NextMessage
    \/ Download
    \/ Send
    \/ Return
    \/ EndOfBatch
    \/ Sleep
    \/ HandlerSleep
    \/ Interrupt

Spec == Init /\ [][Next]_vars

\* receive_messages, line 97: the server never responds and no timeout ends
\* the wait.
PollHangs ==
    /\ pc = "poll"
    /\ request_timeout = "None"
    /\ pc' = "poll_blocked"
    /\ UNCHANGED <<messages, idx, started, message, body, att, downloads, parts,
                   sendCount, sendOutcome, sendResult, log, failed, sent, slept,
                   interrupted, interruptedAt>>

\* download_attachment, line 44: the server never responds and no timeout
\* ends the wait.
DownloadHangs ==
    /\ pc = "download"
    /\ request_timeout = "None"
    /\ pc' = "download_blocked"
    /\ UNCHANGED <<messages, idx, started, message, body, att, downloads, parts,
                   sendCount, sendOutcome, sendResult, log, failed, sent, slept,
                   interrupted, interruptedAt>>

NextHang ==
    \/ Receive
    \/ NextMessage
    \/ Download
    \/ Send
    \/ Return
    \/ EndOfBatch
    \/ Sleep
    \/ HandlerSleep
    \/ Interrupt
    \/ PollHangs
    \/ DownloadHangs

\* run() against servers that may never respond.
HangSpec == Init /\ [][NextHang]_vars

\* Every external call returns: the poll, each download, the mail transport
\* and the sleeps complete, and the interpreter runs the loop.
FairSpec ==
    Init /\ [][Next]_vars
         /\ WF_vars(Receive) /\ WF_vars(NextMessage) /\ WF_vars(Download)
         /\ WF_vars(Send) /\ WF_vars(Return) /\ WF_vars(EndOfBatch) /\ WF_vars(Sleep)
         /\ WF_vars(HandlerSleep)

----------------------------------------------------------------------------
\* What the properties say of a raw message, read off its JSON alone.

\* The message, its envelope and its data message are records.
Shaped(m) == m.shape = "record" /\ m.envelope = "record" /\ m.dataMessage = "record"

\* The text is a non-empty string.
HasText(m) == Shaped(m) /\ m.text.tag = "str" /\ m.text.val # ""

\* The attachment list is a non-empty list.
HasAttachments(m) == Shaped(m) /\ m.attachments.tag = "list" /\ m.attachments.items # <<>>

\* The text is empty or missing and the attachment list is empty or missing.
RawEmpty(m) ==
    /\ m.shape = "record"
    /\ \/ m.envelope = "absent"
       \/ /\ m.envelope = "record"
          /\ \/ m.dataMessage = "absent"
             \/ /\ m.dataMessage = "record"
                /\ m.text.tag \in {"absent", "null"} \/ m.text.val = ""
                /\ \/ m.attachments.tag \in {"absent", "null"}
                   \/ m.attachments.tag = "list" /\ m.attachments.items = <<>>

\* The fields a forwarded email is built from can be formatted: the timestamp
\* is a number in the range of dates, the text can be encoded, the attachments
\* are a list of records.
Formattable(m) ==
    /\ Shaped(m)
    /\ m.timestamp \in {"absent", "int"}
    /\ m.text.val # SURROGATE
    /\ m.attachments.tag \in {"absent", "null", "list"}
    /\ \A i \in 1..Len(m.attachments.items) : m.attachments.items[i].shape = "record"

DeclaredAttachments(m) == m.attachments.items

Processing == message # NoMessage

\* process_message has returned for the current message.
Returned == pc = "returned" /\ Processing

----------------------------------------------------------------------------
\* C1 as stated: every message with a non-empty text or a non-empty attachment
\* list gets exactly one invocation of the mail transport, whatever its other
\* fields contain.
C1_AnyFields ==
    (Returned /\ (HasText(message) \/ HasAttachments(message))) => sendCount = 1

\* C1, amended: a message with a non-empty text or a non-empty attachment list
\* whose fields can be formatted gets exactly one invocation of the mail
\* transport by the time process_message returns, whatever its downloads did;
\* and no message ever gets more than one.
C1_OneEmailPerFormattableMessage ==
    /\ sendCount <= 1
    /\ (Returned /\ Formattable(message)
          /\ (HasText(message) \/ HasAttachments(message))) => sendCount = 1

\* C1: an email was sent for a message whose only content is two attachments,
\* one of which failed to download.
C1_Witness ==
    /\ Returned
    /\ ~HasText(message)
    /\ Len(DeclaredAttachments(message)) = 2
    /\ Formattable(message)
    /\ \E j \in 1..Len(downloads) : downloads[j] = "None"
    /\ sendCount = 1

\* C2: a message whose text is empty or missing and whose attachment list is
\* empty or missing causes no download and no invocation of the mail
\* transport; and a message that process_message drops silently (it returns
\* with nothing logged) is such an empty message: no other rule discards.
C2_EmptyMessageDiscarded ==
    /\ (Processing /\ RawEmpty(message)) =>
          /\ pc = "returned"
          /\ sendCount = 0
          /\ downloads = <<>>
          /\ att = 0
    /\ (Returned /\ log = <<>>) => RawEmpty(message)

\* C2: an empty message (text "", attachments []) was processed and discarded.
C2_Witness ==
    /\ Returned
    /\ Shaped(message)
    /\ message.text = Text("")
    /\ message.attachments = ListVal(<<>>)
    /\ sendCount = 0
    /\ log = <<>>

\* C3: in a cycle whose poll returned a list of N messages, process_message is
\* started once for each of the first idx messages and never for a later one,
\* the cycle sleeps only when all N were started once, no failure of a message
\* takes run() to its loop-level handler, and run() ends only on an interrupt.
C3_EveryMessageStartedOnce ==
    /\ messages.kind = "list" =>
          /\ Len(started) = messages.len
          /\ idx <= messages.len
          /\ \A i \in 1..messages.len : started[i] = (IF i <= idx THEN 1 ELSE 0)
          /\ pc = "sleep" => idx = messages.len
          /\ pc # "handler_sleep"
    /\ pc \in {"stopped", "crashed"} => interrupted

\* C3: the second message of a batch reaches its send after an earlier message
\* of the batch failed.
C3_Witness ==
    /\ messages.kind = "list"
    /\ idx = 2
    /\ failed
    /\ pc = "send"
    /\ started[1] = 1 /\ started[2] = 1

\* C4: a poll that fails (receive_messages returns None) takes run() straight
\* to the sleep with no message processed and nothing sent, not to the
\* loop-level handler; and the sleep of such a cycle is followed by the next
\* poll (or by the shutdown, when interrupted).
C4_FailedPollSleeps ==
    /\ [](messages.kind = "None" =>
            /\ pc \in {"sleep", "poll", "stopped"}
            /\ idx = 0
            /\ started = <<>>
            /\ ~Processing
            /\ sendCount = 0
            /\ downloads = <<>>)
    /\ [][(pc = "poll" /\ messages'.kind = "None" /\ ~interrupted')
             => (pc' = "sleep" /\ log' = <<LogRecord("Failed to receive messages")>>)]_vars
    /\ [][(pc = "sleep" /\ messages.kind = "None" /\ ~interrupted') => pc' = "poll"]_vars

\* C4: run() polls again after a cycle whose poll failed.
C4_Witness == pc = "poll" /\ messages.kind = "None" /\ ~interrupted

\* C5: when the mail transport exits non-zero or its invocation raises,
\* send_email_with_attachments logs the failure and returns False,
\* process_message returns normally, no step of the message processing
\* enters the loop-level handler, and the cycle goes on to the sleep (unless
\* interrupted).
C5_FailedSendReturnsFalse ==
    /\ [][(pc = "send" /\ ~interrupted' /\ sendOutcome' \in {"nonzero", "raises"})
             => /\ sendResult' = "False"
                /\ pc' = "returned"
                /\ log' = Append(log, LogRecord("Failed to send email"))]_vars
    /\ [][(pc \in {"loop", "download", "send", "returned"}) => (pc' # "handler_sleep")]_vars
    /\ ((pc = "returned" /\ sendResult = "False") ~> (pc = "sleep" \/ interrupted))

\* C5: process_message returned after an invocation of the transport that raised.
C5_Witness ==
    /\ Returned
    /\ sendOutcome = "raises"
    /\ sendResult = "False"
    /\ sendCount = 1

\* The declared content type is a string starting with "image/".
IsImageType(a) == a.contentType.tag = "str" /\ StartsWith(a.contentType.val, IMAGE_PREFIX)

\* The download of attachment j returned a body.
DownloadSucceeded(j) == downloads[j] \in {"empty", "image", "junk"}

\* The number of binary parts that embed attachment j.
PartsOf(j) == Cardinality({k \in 1..Len(parts) : parts[k].attachment = j})

\* The number of listing entries of the body for attachment j.
EntriesOf(j) == Cardinality({k \in 1..Len(body.listing) : body.listing[k].idx = j})

\* The email of the current message is composed: every attachment was iterated.
Composed ==
    /\ Processing
    /\ pc \in {"send", "returned"}
    /\ Formattable(message)
    /\ HasAttachments(message)

\* C6 as stated: an attachment is embedded as exactly one binary part if and
\* only if its declared content type starts with "image/" and its download
\* succeeded; every attachment has exactly one listing entry.
C6_EmbeddedIffImageAndDownloaded ==
    Composed =>
        \A j \in 1..Len(DeclaredAttachments(message)) :
            /\ PartsOf(j) = (IF IsImageType(DeclaredAttachments(message)[j])
                                /\ DownloadSucceeded(j) THEN 1 ELSE 0)
            /\ EntriesOf(j) = 1

\* C7: for a message with attachments, whichever downloads fail: the body
\* lists every declared attachment, every attachment iterated so far had its
\* download attempted, the embedded parts embed distinct attachments that are
\* of image type and were downloaded, nothing is sent before the last
\* attachment was iterated, and the transport was invoked once when
\* process_message returns.
C7_FailedDownloadsKeepTheEmail ==
    (Processing /\ Formattable(message) /\ HasAttachments(message)) =>
        LET n == Len(DeclaredAttachments(message)) IN
        /\ Len(body.listing) = n
        /\ \A j \in 1..n : EntriesOf(j) = 1
        /\ Len(downloads) = att
        /\ att <= n
        /\ \A j \in 1..att : downloads[j] # "not attempted"
        /\ \A j \in 1..n : PartsOf(j) <= 1
        /\ \A k \in 1..Len(parts) :
              /\ parts[k].attachment \in 1..att
              /\ DownloadSucceeded(parts[k].attachment)
              /\ IsImageType(DeclaredAttachments(message)[parts[k].attachment])
        /\ pc \in {"send", "returned"} => att = n
        /\ pc = "returned" => sendCount = 1
        /\ pc # "returned" => sendCount = 0

\* C7: of two attachments the first failed to download and the second, an
\* image, was embedded; the email was handed to the transport.
C7_Witness ==
    /\ Returned
    /\ Len(DeclaredAttachments(message)) = 2
    /\ downloads = <<"None", "image">>
    /\ Len(parts) = 1
    /\ parts[1].attachment = 2
    /\ Len(body.listing) = 2
    /\ sendCount = 1

\* C8: run() ends only on an interrupt; and when every external call
\* returns, either an interrupt is delivered or the loop polls again and
\* again, whatever failed in the cycles.
C8_StopsOnlyOnInterrupt ==
    /\ [](pc \in {"stopped", "crashed"} => interrupted)
    /\ (<>interrupted \/ []<>(pc = "poll"))

\* C8: run() is polling again after a cycle that ended in the loop-level handler.
C8_Witness == pc = "poll" /\ messages.kind = "number" /\ ~interrupted

\* The raw message makes process_message raise before any attachment is
\* downloaded: a container that is not a record, or, in a message that is not
\* empty, a field that cannot be formatted.
Malformed(m) ==
    \/ m.shape # "record"
    \/ m.envelope = "null"
    \/ m.envelope = "record" /\ m.dataMessage = "null"
    \/ Shaped(m) /\ ~RawEmpty(m) /\ ~Formattable(m)

\* A descriptor with a null content type raised at line 73 (None.startswith).
NullTypeRaised ==
    \E j \in 1..Len(downloads) :
        /\ Attachments(message)[j].contentType.tag = "null"
        /\ downloads[j] \in {"image", "junk"}

\* process_message caught an exception and logged it with the raw message.
DroppedWithRawMessage ==
    log = <<LogRecord("Failed to process message"), LogMessage("Message content", message)>>

\* C9 as stated: whenever a malformed envelope, data message or attachment
\* descriptor raised while the message was processed, process_message caught
\* it, logged it with the raw message, and no email was handed to the transport.
C9_AnyExceptionDropsMessage ==
    (Returned /\ (Malformed(message) \/ NullTypeRaised))
        => (DroppedWithRawMessage /\ sendCount = 0)

\* C9, amended: an exception raised by process_message's extraction and
\* formatting, or while the text part of the email is composed, is caught
\* inside process_message and logged with the raw message: nothing is
\* downloaded, no email is handed to the transport, and process_message
\* returns.  An exception raised for one attachment inside
\* send_email_with_attachments is caught there instead: the message is not
\* dropped and its email is handed to the transport.
C9_ExtractionFailureDropsMessage ==
    /\ (Processing /\ Malformed(message)) =>
          /\ pc = "returned"
          /\ DroppedWithRawMessage
          /\ sendCount = 0
          /\ downloads = <<>>
    /\ (Returned /\ NullTypeRaised) =>
          /\ ~DroppedWithRawMessage
          /\ sendCount = 1

\* C9: a message with text and a null timestamp was dropped and logged.
C9_Witness ==
    /\ Returned
    /\ HasText(message)
    /\ message.timestamp = "null"
    /\ DroppedWithRawMessage
    /\ sendCount = 0

\* C10 as stated: the body lists the declared attachments in order, indexed
\* from 1, each with its content type, or "unknown" when the type is absent or
\* empty, and its size, or "unknown" when absent; <no attachments> appears
\* exactly when none was declared, <no message> exactly when the text is empty.
C10_ListingTypeOrUnknown ==
    (Processing /\ body # NoBody) =>
        LET declared == DeclaredAttachments(message) IN
        /\ Len(body.listing) = Len(declared)
        /\ \A j \in 1..Len(declared) :
              LET ct == declared[j].contentType
                  size == declared[j].size
              IN
              /\ body.listing[j].idx = j
              /\ (ct.tag = "absent" \/ (ct.tag = "str" /\ ct.val = EMPTY_STR))
                    => body.listing[j].type = UNKNOWN
              /\ (ct.tag = "str" /\ ct.val # EMPTY_STR) => body.listing[j].type = ct.val
              /\ body.listing[j].size = (IF size.tag = "absent" THEN UNKNOWN ELSE size.val)
        /\ body.noAttachments <=> (Len(declared) = 0)
        /\ (body.message = NO_MESSAGE) <=> ~HasText(message)

\* C11: a cycle sleeps exactly once, for the configured interval, whether it
\* ends normally or in the loop-level handler: run() is about to poll again
\* only after one sleep of poll_interval, no sleep has happened while a batch
\* is being processed, and the sleep of a batch starts only when every
\* message of the batch was processed.
C11_OneSleepPerCycle ==
    /\ (pc = "poll" /\ messages # Unset) => slept = <<poll_interval>>
    /\ pc \in {"loop", "download", "send", "returned", "sleep", "handler_sleep"}
          => slept = <<>>
    /\ (pc = "sleep" /\ messages.kind = "list") => (idx = messages.len /\ ~Processing)
    /\ pc = "handler_sleep" => ~Processing

\* C11: run() slept once after a batch of two messages and is about to poll.
C11_Witness ==
    /\ pc = "poll"
    /\ messages.kind = "list"
    /\ messages.len = 2
    /\ idx = 2
    /\ slept = <<poll_interval>>

\* C12 as stated: an interrupt moves run() to Stopped only while it is in the
\* sleep between cycles.
C12_StoppedOnlyFromSleep == pc = "stopped" => interruptedAt = "sleep"

\* C12, amended: an interrupt moves run() to Stopped from any point of the try
\* of the loop body: delivered during the poll, between two messages, during
\* an attachment download, a mail send or the sleep between cycles, it cancels
\* what is in flight, the message being processed is abandoned where it is (no
\* further download and no send for it), and run() logs the shutdown.
C12_InterruptCancelsInFlight ==
    /\ [](pc = "stopped" =>
            /\ interruptedAt \in {"poll", "loop", "download", "send", "returned", "sleep"}
            /\ ~Processing
            /\ log = <<LogRecord("Shutting down...")>>)
    /\ [][(~interrupted /\ interrupted'
             /\ pc \in {"poll", "loop", "download", "send", "returned", "sleep"})
          => (pc' = "stopped" /\ idx' = idx /\ started' = started /\ sent' = sent)]_vars
    /\ [][(pc = "stopped") => (pc' = "stopped")]_vars

\* C12: run() was stopped by an interrupt delivered during an attachment
\* download of the first of two messages.
C12_Witness ==
    /\ pc = "stopped"
    /\ interruptedAt = "download"
    /\ messages.len = 2
    /\ idx = 1

\* Strictly increasing: no index twice, in the order of the batch.
Increasing(seq) == \A i, j \in 1..Len(seq) : i < j => seq[i] < seq[j]

\* C13: one operation at a time and in order: while run() polls, sleeps or is
\* between two messages no message is in processing; a download is in flight
\* only when the downloads of all earlier descriptors have finished and before
\* the transport is invoked; the transport is invoked only when every
\* attachment was iterated; and the emails of a batch are handed to the
\* transport in the order of the batch, never ahead of the for loop.
C13_StrictlySequential ==
    /\ pc \in {"poll", "loop", "sleep", "handler_sleep", "stopped", "crashed"} => ~Processing
    /\ pc = "download" =>
          /\ Processing
          /\ sendCount = 0
          /\ Len(downloads) = att
          /\ att < Len(DeclaredAttachments(message))
          /\ idx \notin {sent[k] : k \in 1..Len(sent)}
    /\ pc = "send" =>
          /\ Processing
          /\ sendCount = 0
          /\ att = Len(DeclaredAttachments(message))
          /\ Len(downloads) = att
          /\ idx \notin {sent[k] : k \in 1..Len(sent)}
    /\ Increasing(sent)
    /\ \A k \in 1..Len(sent) : sent[k] \in 1..idx

\* C13: both messages of a batch were handed to the transport, in order, the
\* second after its two downloads.
C13_Witness ==
    /\ Returned
    /\ idx = 2
    /\ sent = <<1, 2>>
    /\ Len(downloads) = 2

\* C14 as stated: every message returned by a poll gets at most one invocation
\* of the transport and exactly one download attempt per declared attachment.
C14_ExactlyOneDownloadEach ==
    Returned =>
        /\ sendCount <= 1
        /\ Len(downloads) = Len(DeclaredAttachments(message))
        /\ \A j \in 1..Len(downloads) : downloads[j] # "not attempted"

\* C14, amended: nothing is retried and nothing is carried over.  Every
\* message gets at most one invocation of the transport and at most one
\* download attempt per declared attachment, exactly one when the message
\* reaches its send (a message dropped before the attachment loop gets none);
\* once process_message has returned, whatever failed, the for loop goes on
\* and never takes a message again; and the poll of the next cycle starts
\* from nothing.
C14_NoRetryNoCarryOver ==
    /\ [](/\ sendCount <= 1
          /\ Len(downloads) = att
          /\ att <= Len(DeclaredAttachments(message))
          /\ sendCount = 1 =>
                /\ Len(downloads) = Len(DeclaredAttachments(message))
                /\ \A j \in 1..Len(downloads) : downloads[j] # "not attempted"
          /\ Increasing(sent)
          /\ \A i \in 1..Len(started) : started[i] <= 1)
    /\ [][(pc = "returned" /\ ~interrupted') => (pc' = "loop" /\ ~Processing')]_vars
    /\ [][(pc # "poll") => (idx' >= idx /\ Len(sent') >= Len(sent))]_vars
    /\ [][(pc = "poll" /\ ~interrupted')
             => (idx' = 0 /\ sent' = <<>> /\ ~Processing'
                   /\ \A i \in 1..Len(started') : started'[i] = 0)]_vars

\* C14: a cycle of one message ended, after a failure, with one invocation of
\* the transport and run() asleep.
C14_Witness ==
    /\ pc = "sleep"
    /\ messages.len = 1
    /\ failed
    /\ sent = <<1>>

\* C15 as stated: every outbound HTTP call is bounded by a timeout, so no
\* call stays blocked on a server that never responds.
C15_EveryCallTimesOut == pc \notin {"poll_blocked", "download_blocked"}

\* C16 as stated: an interrupt delivered at any point of run() ends it
\* through the Stopped path, never as an exception leaving run().
C16_InterruptAlwaysStops == interrupted => pc = "stopped"

\* C17 as stated: a failure confined to one attachment (a non-record
\* descriptor, a null content type, content that is no image) affects only
\* that attachment: for a message whose other fields can be formatted, every
\* descriptor that is a record is still downloaded, and embedded when it is of
\* image type and its content is an image, and the email is handed to the
\* transport once.
C17_AttachmentFailureConfined ==
    (/\ Returned
     /\ Shaped(message)
     /\ message.timestamp \in {"absent", "int"}
     /\ message.text.val # SURROGATE
     /\ message.attachments.tag = "list"
     /\ message.attachments.items # <<>>)
    => LET declared == DeclaredAttachments(message) IN
       /\ sendCount = 1
       /\ Len(downloads) = Len(declared)
       /\ \A j \in 1..Len(declared) :
             declared[j].shape = "record" =>
                /\ downloads[j] # "not attempted"
                /\ (IsImageType(declared[j]) /\ downloads[j] = "image") => PartsOf(j) = 1

====
